---- MODULE Spec2Model ----
(***************************************************************************)
(* Shareboard document store (backend/main.py): a JSON index of document   *)
(* records (documents.json), one content file per document (file/<id>.lix) *)
(* and timestamped backups (backup/<id>.<stamp>.lix), accessed by          *)
(* concurrent request handlers whose blocking parts run on worker threads. *)
(*                                                                         *)
(* A step of the model is one file-system call (or one locked section of   *)
(* calls) of one handler, together with the local computation that follows *)
(* it.  Text is a sequence of characters; the text of the index file is a  *)
(* JSON value together with whether the text is complete.                  *)
(***************************************************************************)
EXTENDS Integers, Sequences, FiniteSets, TLC

\* ------------------------------------------------------------------ bounds
\* Number of request handlers that may run at the same time.
NumThreads == 2
\* Number of requests served in one behaviour (a failing file-system call
\* counts as one more).
MaxOps == 4
\* Number of requests that arrive while another request is being served.
MaxOverlaps == 1
\* Number of file-system calls that fail in one behaviour.
MaxFaults == 1
\* Number of requests (and failing calls) in a behaviour under fair scheduling.
LiveOps == 3

Threads == 1..NumThreads
NoThread == 0
\* Every request reads the clock at most twice (updated_at and a backup stamp).
MaxClock == 2 * MaxOps

\* Request inputs.
CreateTitles == {"A"}
UpdateTitles == {"B"}
CreateContents == {<<"a">>, <<"\r">>}
UpdateContents == {<<"b">>}
RequestIds == {"1", "2"}
\* Optional[str]: <<>> is None, <<v>> is the value v.
None == <<>>
Some(v) == <<v>>

\* ------------------------------------------------------------------ layout
DOCUMENTS_FILE == "documents.json"
FILES_DIR == "file"
BACKUP_DIR == "backup"

Digits == <<"0", "1", "2", "3", "4", "5", "6", "7", "8", "9">>

\* str(n) of a non-negative int.
RECURSIVE str(_)
str(n) == IF n < 10 THEN Digits[n + 1] ELSE str(n \div 10) \o Digits[(n % 10) + 1]

\* A path is <<directory, file name>>.
_get_file_path(doc_id) == <<FILES_DIR, doc_id \o ".lix">>

\* datetime.strftime("%Y%m%d_%H%M%S_%f"): fixed width, one stamp per clock value.
strftime(ts) == IF ts < 10 THEN "0" \o str(ts) ELSE str(ts)

_get_backup_path(doc_id, ts) == <<BACKUP_DIR, doc_id \o "." \o strftime(ts) \o ".lix">>

\* A faulty temporary name: the index file itself, so that it is written in place.
mkstemp_inplace(t) == DOCUMENTS_FILE

\* tempfile.mkstemp(dir=BASE_DIR, prefix="documents_", suffix=".json"): a fresh
\* name in BASE_DIR, different for every saver that is running.
mkstemp(t) == "documents_" \o str(t) \o ".json"

\* ------------------------------------------------------------------ text
\* open(path, 'w') with newline=None: "\n" is written as os.linesep (POSIX: "\n").
linesep == <<"\n">>

RECURSIVE text_write(_)
text_write(s) ==
    IF s = <<>> THEN <<>>
    ELSE (IF Head(s) = "\n" THEN linesep ELSE <<Head(s)>>) \o text_write(Tail(s))

\* open(path, 'r') with newline=None (universal newlines): "\r\n" and "\r" are
\* returned as "\n".
RECURSIVE text_read(_)
text_read(s) ==
    IF s = <<>> THEN <<>>
    ELSE IF Head(s) = "\r"
         THEN <<"\n">> \o text_read(IF Len(s) >= 2 /\ s[2] = "\n"
                                     THEN SubSeq(s, 3, Len(s)) ELSE Tail(s))
         ELSE <<Head(s)>> \o text_read(Tail(s))

\* str(datetime) as json.dump(default=str) writes it, and its parse by pydantic.
datetime_str(ts) == "2025-01-01 00:00:00." \o str(ts)
is_datetime_str(s) == \E ts \in 0..MaxClock : datetime_str(ts) = s
parse_datetime(s) == CHOOSE ts \in 0..MaxClock : datetime_str(ts) = s

\* meta.model_dump() serialised by json.dump(..., default=str).
model_dump(meta) ==
    [id |-> meta.id, title |-> meta.title, file_path |-> meta.file_path,
     created_at |-> datetime_str(meta.created_at),
     updated_at |-> datetime_str(meta.updated_at)]

\* The text of a JSON file: kind "empty" (no bytes), "garbage" (not JSON),
\* "scalar" (JSON that is no array) or "array" of objects; closed is FALSE for
\* a text that stops before its end.
EmptyText == [kind |-> "empty", items |-> <<>>, closed |-> FALSE]

json_dump(ms) ==
    [kind |-> "array", items |-> [i \in 1..Len(ms) |-> model_dump(ms[i])], closed |-> TRUE]

\* json.load raises JSONDecodeError on these texts.
JSONDecodeError(text) == text.kind \in {"empty", "garbage"} \/ ~text.closed

\* DocumentMeta(**item) accepts the item.
valid_meta(item) == is_datetime_str(item.created_at) /\ is_datetime_str(item.updated_at)

DocumentMeta(item) ==
    [id |-> item.id, title |-> item.title, file_path |-> item.file_path,
     created_at |-> parse_datetime(item.created_at),
     updated_at |-> parse_datetime(item.updated_at)]

\* _load_document_metas_sync on the directory b: exc is the exception that
\* leaves the function ("none": it returns metas).  The os.path.exists test
\* and the locked open-and-read are one step: the file is never removed by
\* the program, and it changes only by os.replace under the same lock.
_load_document_metas_sync(b) ==
    IF DOCUMENTS_FILE \notin DOMAIN b THEN [exc |-> "none", metas |-> <<>>]
    ELSE LET text == b[DOCUMENTS_FILE] IN
         IF JSONDecodeError(text) THEN [exc |-> "none", metas |-> <<>>]
         ELSE IF text.kind # "array" THEN [exc |-> "TypeError", metas |-> <<>>]
         ELSE IF \E i \in 1..Len(text.items) : ~valid_meta(text.items[i])
              THEN [exc |-> "ValidationError", metas |-> <<>>]
         ELSE [exc |-> "none",
               metas |-> [i \in 1..Len(text.items) |-> DocumentMeta(text.items[i])]]

\* ------------------------------------------------------------------ values
NoDoc == [id |-> "", title |-> "", content |-> <<>>, created_at |-> 0, updated_at |-> 0]
NoReq == [op |-> "none", id |-> "", title |-> None, content |-> None]
EmptyDir == [n \in {} |-> <<>>]
NoLast == [op |-> "none", id |-> "", title |-> None, content |-> None,
           status |-> "none", doc |-> NoDoc, n |-> 0, solo |-> FALSE,
           dirty |-> FALSE, updated |-> FALSE, at |-> "idle", racing |-> {}, old |-> <<>>,
           prev |-> <<>>]
NoHist == [creates |-> 0, deletes |-> FALSE, overlapped |-> FALSE, gone |-> {}, faults |-> 0]
NoSnap == [taken |-> FALSE, base |-> EmptyDir, files |-> EmptyDir,
           backups |-> EmptyDir, last |-> NoLast, n |-> 0]

VARIABLES
    base,      \* regular files of BASE_DIR: name -> JSON text
    files,     \* FILES_DIR: name -> bytes
    backups,   \* BACKUP_DIR: name -> bytes
    dirs,      \* the directories that exist
    now,       \* the last value datetime.now() returned; every read is later
    lock,      \* owner of _file_lock, NoThread when free
    saved,     \* <<>> or <<the record list of the last completed os.replace>>
    lastbytes, \* FILES_DIR name -> the bytes last written to it (kept on removal)
    pc,        \* per handler: its position
    req,       \* per handler: the request it serves
    metas,     \* per handler: the local list metas
    doc,       \* per handler: existing_doc / new_document / updated_doc
    docs,      \* per handler: the list documents of load_documents
    idx,       \* per handler: index of the matching record in metas
    updated,   \* per handler: the flag updated of save_document
    existing,  \* per handler: len(existing_docs) of create_document
    dirty,     \* per handler: its request created, changed or removed a file
    nops,      \* requests started, and file-system calls that failed
    overlaps,  \* requests started while another one was in flight
    solo,      \* the handler whose request has had no other request in flight
    pre,       \* the files, and last, as they were when the solo request started;
               \* n: the requests started since a request last started alone
    last,      \* the request that has just completed, and its result; racing: the
               \* handlers that had loaded the index for a save of their own; at:
               \* the position it ended at; old:
               \* the index record of its id before its save; prev: the request
               \* that completed before it, if no request has started since
    hist       \* creates completed; has a delete started; have two creates overlapped;
               \* gone: the ids a delete returned true for and no create has returned since;
               \* faults: the file-system calls that have failed

fsvars == <<base, files, backups, dirs>>
locals == <<pc, req, metas, doc, docs, idx, updated, existing, dirty>>
vars == <<base, files, backups, dirs, now, lock, saved, lastbytes, pc, req, metas, doc, docs,
          idx, updated, existing, dirty, nops, overlaps, solo, pre, last, hist>>

Init ==
    /\ base = EmptyDir
    /\ files = EmptyDir
    /\ backups = EmptyDir
    /\ dirs = {}
    /\ now = 0
    /\ lock = NoThread
    /\ saved = <<>>
    /\ lastbytes = EmptyDir
    /\ pc = [t \in Threads |-> "idle"]
    /\ req = [t \in Threads |-> NoReq]
    /\ metas = [t \in Threads |-> <<>>]
    /\ doc = [t \in Threads |-> NoDoc]
    /\ docs = [t \in Threads |-> <<>>]
    /\ idx = [t \in Threads |-> 0]
    /\ updated = [t \in Threads |-> FALSE]
    /\ existing = [t \in Threads |-> 0]
    /\ dirty = [t \in Threads |-> FALSE]
    /\ nops = 0
    /\ overlaps = 0
    /\ solo = NoThread
    /\ pre = NoSnap
    /\ last = NoLast
    /\ hist = NoHist

\* ------------------------------------------------------------------ files
exists(path) ==
    \/ path[1] = FILES_DIR /\ path[2] \in DOMAIN files
    \/ path[1] = BACKUP_DIR /\ path[2] \in DOMAIN backups

read_bytes(path) == IF path[1] = FILES_DIR THEN files[path[2]] ELSE backups[path[2]]

Put(dir, name, data) == [n \in DOMAIN dir \cup {name} |-> IF n = name THEN data ELSE dir[n]]
Remove(dir, name) == [n \in DOMAIN dir \ {name} |-> dir[n]]

\* os.replace(src, dst) inside one directory.
os_replace(dir, src, dst) ==
    [n \in (DOMAIN dir \ {src}) \cup {dst} |-> IF n = dst THEN dir[src] ELSE dir[n]]

\* A missing finally clause: the temporary file is left where it is.
finally_nothing(dir, tmp_path) == dir

\* The finally clause of _save_document_metas_sync: the temporary file is
\* removed if it is still there.
finally_remove(dir, tmp_path) == IF tmp_path \in DOMAIN dir THEN Remove(dir, tmp_path) ELSE dir

\* _read_file_content_sync: "" when the file cannot be opened.
_read_file_content_sync(path) == IF exists(path) THEN text_read(read_bytes(path)) ELSE <<>>

\* _ensure_dirs_exist
_ensure_dirs_exist == dirs' = dirs \cup {FILES_DIR, BACKUP_DIR}

\* A faulty exit: the lock stays with the handler.
with_exit_held(t) == t

\* The end of "with _file_lock", also when an exception passes through it:
\* the new owner of the lock.
with_exit(t) == NoThread

\* A faulty lock: it never makes a caller wait.
may_acquire_always(t) == TRUE

\* with _file_lock: an RLock, free or already owned by the caller.
may_acquire(t) == lock \in {NoThread, t}

\* A faulty search: it falls back to the last record when no id matches.
first_match_or_last(ms, id) ==
    LET hits == {i \in 1..Len(ms) : ms[i].id = id}
    IN IF hits = {} THEN Len(ms) ELSE CHOOSE i \in hits : \A j \in hits : i <= j

\* The first record of ms with this id, 0 when there is none.
first_match(ms, id) ==
    LET hits == {i \in 1..Len(ms) : ms[i].id = id}
    IN IF hits = {} THEN 0 ELSE CHOOSE i \in hits : \A j \in hits : i <= j

\* A faulty upsert: it appends even when a record with the id exists.
upsert_append(ms, meta) == Append(ms, meta)

\* save_document: replace the first record with the document's id, or append.
upsert(ms, meta) ==
    IF first_match(ms, meta.id) # 0
    THEN [ms EXCEPT ![first_match(ms, meta.id)] = meta]
    ELSE Append(ms, meta)

\* metas.pop(i)
pop(ms, i) == [j \in 1..(Len(ms) - 1) |-> IF j < i THEN ms[j] ELSE ms[j + 1]]

Document(meta, content) ==
    [id |-> meta.id, title |-> meta.title, content |-> content,
     created_at |-> meta.created_at, updated_at |-> meta.updated_at]

\* The DocumentMeta save_document builds from a Document.
meta_of(d) ==
    [id |-> d.id, title |-> d.title, file_path |-> _get_file_path(d.id),
     created_at |-> d.created_at, updated_at |-> d.updated_at]

\* ------------------------------------------------------------------ steps
SetLocals(t, p, ms, d, ds, i, u, di) ==
    /\ pc' = [pc EXCEPT ![t] = p]
    /\ metas' = [metas EXCEPT ![t] = ms]
    /\ doc' = [doc EXCEPT ![t] = d]
    /\ docs' = [docs EXCEPT ![t] = ds]
    /\ idx' = [idx EXCEPT ![t] = i]
    /\ updated' = [updated EXCEPT ![t] = u]
    /\ dirty' = [dirty EXCEPT ![t] = di]

\* The handler goes on to position p.
Goto(t, p, ms, d, ds, i, u, di) ==
    /\ SetLocals(t, p, ms, d, ds, i, u, di)
    /\ UNCHANGED <<req, existing, nops, overlaps, solo, pre, last, hist>>

\* The positions of a handler that has loaded the index and is to save it.
SavingPcs == {"save_metas", "save_metas_dump", "save_metas_replace"}

\* The record of ms with this id: <<>> or <<record>>.
record_of(ms, id) == IF first_match(ms, id) = 0 THEN <<>> ELSE <<ms[first_match(ms, id)]>>

\* The request completes: status "ok", "NotFound" (404), "raised" (500, an
\* exception of the index load) or "failed" (500, a file-system call failed).
Finish(t, status, d, n) ==
    /\ SetLocals(t, "idle", <<>>, NoDoc, <<>>, 0, FALSE, FALSE)
    /\ req' = [req EXCEPT ![t] = NoReq]
    /\ existing' = [existing EXCEPT ![t] = 0]
    /\ hist' = [hist EXCEPT
           !.creates = IF req[t].op = "create" /\ status = "ok" THEN @ + 1 ELSE @,
           !.faults = IF status = "failed" THEN @ + 1 ELSE @,
           !.gone = IF req[t].op = "delete" /\ status = "ok" THEN @ \cup {req[t].id}
                    ELSE IF req[t].op = "create" /\ status = "ok" THEN @ \ {d.id}
                    ELSE @]
    /\ last' = [op |-> req[t].op, id |-> req[t].id,
                title |-> req[t].title, content |-> req[t].content,
                status |-> status, doc |-> d, n |-> n, solo |-> (solo = t),
                dirty |-> dirty[t], updated |-> updated[t], at |-> pc[t],
                racing |-> {u \in Threads \ {t} : pc[u] \in SavingPcs},
                old |-> IF req[t].op = "update" /\ status = "ok"
                        THEN record_of(_load_document_metas_sync(base).metas, req[t].id)
                        ELSE <<>>,
                prev |-> IF last.op = "none" THEN <<>>
                         ELSE <<[op |-> last.op, id |-> last.id, status |-> last.status,
                                 doc |-> last.doc, title |-> last.title,
                                 content |-> last.content, old |-> last.old,
                                 raced |-> t \in last.racing]>>]
    /\ solo' = NoThread
    /\ nops' = IF status = "failed" THEN nops + 1 ELSE nops
    /\ UNCHANGED <<overlaps, pre>>

\* A request arrives at an idle handler.
Begin(t, r, first) ==
    /\ pc[t] = "idle"
    /\ nops < MaxOps
    /\ pc' = [pc EXCEPT ![t] = first]
    /\ req' = [req EXCEPT ![t] = r]
    /\ nops' = nops + 1
    /\ LET alone == \A u \in Threads \ {t} : pc[u] = "idle"
       IN /\ alone \/ overlaps < MaxOverlaps
          /\ overlaps' = IF alone THEN overlaps ELSE overlaps + 1
          /\ solo' = IF alone THEN t ELSE NoThread
          /\ pre' = IF alone
                    THEN [taken |-> TRUE, base |-> base, files |-> files,
                          backups |-> backups, last |-> last, n |-> 1]
                    ELSE [NoSnap EXCEPT !.n = pre.n + 1]
    /\ last' = NoLast
    /\ hist' = [hist EXCEPT
           !.deletes = @ \/ r.op = "delete",
           !.overlapped = @ \/ (r.op = "create" /\ \E u \in Threads : req[u].op = "create")]
    /\ UNCHANGED <<fsvars, now, lock, saved, lastbytes, metas, doc, docs, idx, updated,
                   existing, dirty>>

\* GET /api/documents
StartList(t) ==
    Begin(t, [op |-> "list", id |-> "", title |-> None, content |-> None], "load_documents")

\* GET /api/documents/{document_id}
StartGet(t) ==
    \E i \in RequestIds :
        Begin(t, [op |-> "get", id |-> i, title |-> None, content |-> None], "get_load")

\* POST /api/documents
StartCreate(t) ==
    \E ti \in CreateTitles, c \in CreateContents :
        Begin(t, [op |-> "create", id |-> "", title |-> Some(ti), content |-> Some(c)],
              "load_documents")

\* PUT /api/documents/{document_id}: title and content are optional.
StartUpdate(t) ==
    \E i \in RequestIds,
       ti \in {None} \cup {Some(x) : x \in UpdateTitles},
       c \in {None} \cup {Some(x) : x \in UpdateContents} :
        /\ ti # None \/ c # None
        /\ Begin(t, [op |-> "update", id |-> i, title |-> ti, content |-> c], "get_load")

\* DELETE /api/documents/{document_id}
StartDelete(t) ==
    \E i \in RequestIds :
        Begin(t, [op |-> "delete", id |-> i, title |-> None, content |-> None], "delete_load")

\* load_documents._load: _ensure_dirs_exist and _load_document_metas_sync.
ListLoad(t) ==
    /\ pc[t] = "load_documents"
    /\ DOCUMENTS_FILE \in DOMAIN base => may_acquire(t)
    /\ _ensure_dirs_exist
    /\ LET r == _load_document_metas_sync(base)
       IN IF r.exc # "none"
          THEN Finish(t, "raised", NoDoc, 0)
          ELSE Goto(t, "read_documents", r.metas, NoDoc, <<>>, 0, FALSE, dirty[t])
    /\ UNCHANGED <<base, files, backups, now, lock, saved, lastbytes>>

\* load_documents._load: one turn of the loop over metas.
ListRead(t) ==
    /\ pc[t] = "read_documents"
    /\ Len(docs[t]) < Len(metas[t])
    /\ LET meta == metas[t][Len(docs[t]) + 1]
           d == Document(meta, _read_file_content_sync(meta.file_path))
       IN Goto(t, "read_documents", metas[t], NoDoc, Append(docs[t], d), 0, FALSE, dirty[t])
    /\ UNCHANGED <<fsvars, now, lock, saved, lastbytes>>

\* get_documents returns the list.
ListReturn(t) ==
    /\ pc[t] = "read_documents"
    /\ req[t].op = "list"
    /\ Len(docs[t]) = Len(metas[t])
    /\ Finish(t, "ok", NoDoc, Len(docs[t]))
    /\ UNCHANGED <<fsvars, now, lock, saved, lastbytes>>

\* create_document: the id from the number of documents, and the new Document.
CreateMake(t) ==
    /\ pc[t] = "read_documents"
    /\ req[t].op = "create"
    /\ Len(docs[t]) = Len(metas[t])
    /\ now' = now + 1
    /\ LET new_document ==
               [id |-> str(Len(docs[t]) + 1), title |-> req[t].title[1],
                content |-> req[t].content[1], created_at |-> now', updated_at |-> now']
       IN SetLocals(t, "save_exists", <<>>, new_document, <<>>, 0, FALSE, dirty[t])
    /\ existing' = [existing EXCEPT ![t] = Len(docs[t])]
    /\ UNCHANGED <<fsvars, lock, saved, lastbytes, req, nops, overlaps, solo, pre, last, hist>>

\* get_document_by_id._get: load the index and look for the id.
GetLoad(t) ==
    /\ pc[t] = "get_load"
    /\ DOCUMENTS_FILE \in DOMAIN base => may_acquire(t)
    /\ _ensure_dirs_exist
    /\ LET r == _load_document_metas_sync(base)
           i == first_match(r.metas, req[t].id)
       IN IF r.exc # "none" THEN Finish(t, "raised", NoDoc, 0)
          ELSE IF i = 0 THEN Finish(t, "NotFound", NoDoc, 0)
          ELSE Goto(t, "get_read", r.metas, NoDoc, <<>>, i, FALSE, dirty[t])
    /\ UNCHANGED <<base, files, backups, now, lock, saved, lastbytes>>

\* get_document_by_id._get: read the content file; get_document returns.
GetRead(t) ==
    /\ pc[t] = "get_read"
    /\ LET meta == metas[t][idx[t]]
           d == Document(meta, _read_file_content_sync(meta.file_path))
       IN IF req[t].op = "get"
          THEN Finish(t, "ok", d, 0)
          ELSE Goto(t, "update_make", <<>>, d, <<>>, 0, FALSE, dirty[t])
    /\ UNCHANGED <<fsvars, now, lock, saved, lastbytes>>

\* A faulty update: it stamps created_at instead of updated_at.
apply_update_created(existing_doc, r, ts) ==
    [existing_doc EXCEPT
        !.title = IF r.title # None THEN r.title[1] ELSE @,
        !.content = IF r.content # None THEN r.content[1] ELSE @,
        !.created_at = ts]

\* update_document: apply the fields of the request that are present.
apply_update(existing_doc, r, ts) ==
    [existing_doc EXCEPT
        !.title = IF r.title # None THEN r.title[1] ELSE @,
        !.content = IF r.content # None THEN r.content[1] ELSE @,
        !.updated_at = ts]

UpdateMake(t) ==
    /\ pc[t] = "update_make"
    /\ now' = now + 1
    /\ Goto(t, "save_exists", <<>>, apply_update(doc[t], req[t], now'), <<>>, 0, FALSE,
            dirty[t])
    /\ UNCHANGED <<fsvars, lock, saved, lastbytes>>

\* save_document._save: an update backs up the content file if there is one.
is_new(t) == req[t].op = "create"

SaveExists(t) ==
    /\ pc[t] = "save_exists"
    /\ _ensure_dirs_exist
    /\ Goto(t, IF ~is_new(t) /\ exists(_get_file_path(doc[t].id))
               THEN "save_backup" ELSE "save_write",
            <<>>, doc[t], <<>>, 0, FALSE, dirty[t])
    /\ UNCHANGED <<base, files, backups, now, lock, saved, lastbytes>>

\* _backup_file_sync(source_path, _get_backup_path(doc_id)): result directory.
_backup_file_sync(source_path, backup_path) ==
    IF exists(source_path)
    THEN Put(backups, backup_path[2], read_bytes(source_path))
    ELSE backups

SaveBackup(t) ==
    /\ pc[t] = "save_backup"
    /\ now' = now + 1
    /\ backups' = _backup_file_sync(_get_file_path(doc[t].id), _get_backup_path(doc[t].id, now'))
    /\ Goto(t, "save_write", <<>>, doc[t], <<>>, 0, FALSE,
            dirty[t] \/ exists(_get_file_path(doc[t].id)))
    /\ UNCHANGED <<base, files, dirs, lock, saved, lastbytes>>

\* _write_file_content_sync(file_path, document.content): open, write and
\* close taken as one step.
SaveWrite(t) ==
    /\ pc[t] = "save_write"
    /\ files' = Put(files, _get_file_path(doc[t].id)[2], text_write(doc[t].content))
    /\ lastbytes' = Put(lastbytes, _get_file_path(doc[t].id)[2], text_write(doc[t].content))
    /\ Goto(t, "save_load", <<>>, doc[t], <<>>, 0, FALSE, TRUE)
    /\ UNCHANGED <<base, backups, dirs, now, lock, saved>>

\* save_document._save: load the index and put the record in.
SaveLoad(t) ==
    /\ pc[t] = "save_load"
    /\ DOCUMENTS_FILE \in DOMAIN base => may_acquire(t)
    /\ LET r == _load_document_metas_sync(base)
       IN IF r.exc # "none" THEN Finish(t, "raised", NoDoc, 0)
          ELSE Goto(t, "save_metas", upsert(r.metas, meta_of(doc[t])), doc[t], <<>>, 0,
                    first_match(r.metas, doc[t].id) # 0, dirty[t])
    /\ UNCHANGED <<fsvars, now, lock, saved, lastbytes>>

\* delete_document_by_id._delete: load the index and look for the id.
DeleteLoad(t) ==
    /\ pc[t] = "delete_load"
    /\ DOCUMENTS_FILE \in DOMAIN base => may_acquire(t)
    /\ _ensure_dirs_exist
    /\ LET r == _load_document_metas_sync(base)
           i == first_match(r.metas, req[t].id)
       IN IF r.exc # "none" THEN Finish(t, "raised", NoDoc, 0)
          ELSE IF i = 0 THEN Finish(t, "NotFound", NoDoc, 0)
          ELSE Goto(t, "delete_exists", r.metas, NoDoc, <<>>, i, FALSE, dirty[t])
    /\ UNCHANGED <<base, files, backups, now, lock, saved, lastbytes>>

\* delete_document_by_id._delete: os.path.exists(meta.file_path); without the
\* file the record is popped at once.
DeleteExists(t) ==
    /\ pc[t] = "delete_exists"
    /\ IF exists(metas[t][idx[t]].file_path)
       THEN Goto(t, "delete_backup", metas[t], NoDoc, <<>>, idx[t], FALSE, dirty[t])
       ELSE Goto(t, "save_metas", pop(metas[t], idx[t]), NoDoc, <<>>, 0, FALSE, dirty[t])
    /\ UNCHANGED <<fsvars, now, lock, saved, lastbytes>>

DeleteBackup(t) ==
    /\ pc[t] = "delete_backup"
    /\ now' = now + 1
    /\ backups' = _backup_file_sync(metas[t][idx[t]].file_path,
                                   _get_backup_path(req[t].id, now'))
    /\ Goto(t, "delete_remove", metas[t], NoDoc, <<>>, idx[t], FALSE,
            dirty[t] \/ exists(metas[t][idx[t]].file_path))
    /\ UNCHANGED <<base, files, dirs, lock, saved, lastbytes>>

\* os.remove(meta.file_path), OSError swallowed; then metas.pop(i).
DeleteRemove(t) ==
    /\ pc[t] = "delete_remove"
    /\ files' = Remove(files, metas[t][idx[t]].file_path[2])
    /\ Goto(t, "save_metas", pop(metas[t], idx[t]), NoDoc, <<>>, 0, FALSE,
            dirty[t] \/ exists(metas[t][idx[t]].file_path))
    /\ UNCHANGED <<base, backups, dirs, now, lock, saved, lastbytes>>

\* _save_document_metas_sync: take the lock and create the temporary file.
SaveMetasMkstemp(t) ==
    /\ pc[t] = "save_metas"
    /\ may_acquire(t)
    /\ lock' = t
    /\ base' = Put(base, mkstemp(t), EmptyText)
    /\ Goto(t, "save_metas_dump", metas[t], doc[t], <<>>, 0, updated[t], TRUE)
    /\ UNCHANGED <<files, backups, dirs, now, saved, lastbytes>>

\* _save_document_metas_sync: json.dump into the temporary file, and close it.
SaveMetasDump(t) ==
    /\ pc[t] = "save_metas_dump"
    /\ base' = Put(base, mkstemp(t), json_dump(metas[t]))
    /\ Goto(t, "save_metas_replace", metas[t], doc[t], <<>>, 0, updated[t], TRUE)
    /\ UNCHANGED <<files, backups, dirs, now, lock, saved, lastbytes>>

\* _save_document_metas_sync: os.replace, the finally clause, the lock released;
\* save_document or delete_document_by_id returns.
SaveMetasReplace(t) ==
    /\ pc[t] = "save_metas_replace"
    /\ base' = finally_remove(os_replace(base, mkstemp(t), DOCUMENTS_FILE), mkstemp(t))
    /\ lock' = with_exit(t)
    /\ saved' = <<metas[t]>>
    /\ Finish(t, "ok", doc[t], existing[t])
    /\ UNCHANGED <<files, backups, dirs, now, lastbytes>>

\* A step of the worker thread that serves the request of handler t.
Run(t) ==
    \/ ListLoad(t) \/ ListRead(t) \/ ListReturn(t) \/ CreateMake(t)
    \/ GetLoad(t) \/ GetRead(t) \/ UpdateMake(t)
    \/ SaveExists(t) \/ SaveBackup(t) \/ SaveWrite(t) \/ SaveLoad(t)
    \/ DeleteLoad(t) \/ DeleteExists(t) \/ DeleteBackup(t) \/ DeleteRemove(t)
    \/ SaveMetasMkstemp(t) \/ SaveMetasDump(t) \/ SaveMetasReplace(t)

Step(t) ==
    \/ StartList(t) \/ StartGet(t) \/ StartCreate(t) \/ StartUpdate(t) \/ StartDelete(t)
    \/ Run(t)

Next == \E t \in Threads : Step(t)

Spec == Init /\ [][Next]_vars

\* ------------------------------------------------------------------ faults
\* A file-system call of a handler fails with an OSError; at most MaxFaults
\* calls fail in a behaviour, and the os.remove of the finally clause is not
\* one of them.  The exception leaves the worker thread and the request is
\* answered 500, except where the code catches it.  A failing call counts as
\* one of the MaxOps requests of a behaviour.
MayFail == hist.faults < MaxFaults /\ nops < MaxOps

\* A text of the temporary file that json.dump did not finish.
PartialText == [kind |-> "array", items |-> <<>>, closed |-> FALSE]

\* open(DOCUMENTS_FILE) fails in _load_document_metas_sync with an OSError
\* other than FileNotFoundError; the with statement releases the lock.
FailIndexLoad(t) ==
    /\ MayFail
    /\ pc[t] \in {"load_documents", "get_load", "save_load", "delete_load"}
    /\ DOCUMENTS_FILE \in DOMAIN base
    /\ may_acquire(t)
    /\ IF pc[t] = "save_load" THEN UNCHANGED dirs ELSE _ensure_dirs_exist
    /\ Finish(t, "failed", doc[t], 0)
    /\ UNCHANGED <<base, files, backups, now, lock, saved, lastbytes>>

\* shutil.copy2 fails in _backup_file_sync; no backup file is made.
FailBackup(t) ==
    /\ MayFail
    /\ pc[t] \in {"save_backup", "delete_backup"}
    /\ now' = now + 1
    /\ Finish(t, "failed", doc[t], 0)
    /\ UNCHANGED <<fsvars, lock, saved, lastbytes>>

\* _write_file_content_sync fails: in open, and the file is as it was, or in
\* write, after open has truncated or created the file.
FailWrite(t) ==
    /\ MayFail
    /\ pc[t] = "save_write"
    /\ \/ UNCHANGED <<files, lastbytes>>
       \/ /\ files' = Put(files, _get_file_path(doc[t].id)[2], <<>>)
          /\ lastbytes' = Put(lastbytes, _get_file_path(doc[t].id)[2], <<>>)
    /\ Finish(t, "failed", doc[t], 0)
    /\ UNCHANGED <<base, backups, dirs, now, lock, saved>>

\* os.remove fails in delete_document_by_id; the OSError is passed over and
\* the record is popped all the same.
FailRemove(t) ==
    /\ MayFail
    /\ pc[t] = "delete_remove"
    /\ hist' = [hist EXCEPT !.faults = @ + 1]
    /\ nops' = nops + 1
    /\ SetLocals(t, "save_metas", pop(metas[t], idx[t]), NoDoc, <<>>, 0, FALSE, dirty[t])
    /\ UNCHANGED <<fsvars, now, lock, saved, lastbytes, req, existing, overlaps,
                   solo, pre, last>>

\* tempfile.mkstemp fails: there is no temporary file; the lock is released.
FailMkstemp(t) ==
    /\ MayFail
    /\ pc[t] = "save_metas"
    /\ may_acquire(t)
    /\ Finish(t, "failed", doc[t], 0)
    /\ UNCHANGED <<fsvars, now, lock, saved, lastbytes>>

\* json.dump or the close of the temporary file fails; the finally clause
\* runs and the lock is released.
FailDump(t) ==
    /\ MayFail
    /\ pc[t] = "save_metas_dump"
    /\ base' = finally_remove(Put(base, mkstemp(t), PartialText), mkstemp(t))
    /\ lock' = with_exit(t)
    /\ Finish(t, "failed", doc[t], 0)
    /\ UNCHANGED <<files, backups, dirs, now, saved, lastbytes>>

\* os.replace fails; the finally clause runs and the lock is released.
FailReplace(t) ==
    /\ MayFail
    /\ pc[t] = "save_metas_replace"
    /\ base' = finally_remove(base, mkstemp(t))
    /\ lock' = with_exit(t)
    /\ Finish(t, "failed", doc[t], 0)
    /\ UNCHANGED <<files, backups, dirs, now, saved, lastbytes>>

Fault(t) ==
    \/ FailIndexLoad(t) \/ FailBackup(t) \/ FailWrite(t) \/ FailRemove(t)
    \/ FailMkstemp(t) \/ FailDump(t) \/ FailReplace(t)

NextFault == Next \/ \E t \in Threads : Fault(t)

\* The store with file-system calls that may fail.
SpecFault == Init /\ [][NextFault]_vars

\* The same under fair scheduling: a worker thread that can take a step
\* (its lock is free, if it needs it) takes one in the end.  Requests need
\* not arrive and calls need not fail.
NextFair == NextFault /\ nops' <= LiveOps

SpecFair == Init /\ [][NextFair]_vars /\ \A t \in Threads : WF_vars(Run(t))

\* ------------------------------------------------------------------ environment
\* Contents an outside writer may leave in documents.json: text that is not
\* JSON, a JSON array cut short, JSON that is no array, and an array whose
\* item is no DocumentMeta (its created_at is no datetime).
BadItem == [id |-> "1", title |-> "A", file_path |-> _get_file_path("1"),
            created_at |-> "yesterday", updated_at |-> "yesterday"]
CorruptTexts ==
    {[kind |-> "garbage", items |-> <<>>, closed |-> TRUE],
     [kind |-> "array", items |-> <<>>, closed |-> FALSE],
     [kind |-> "scalar", items |-> <<>>, closed |-> TRUE],
     [kind |-> "array", items |-> <<BadItem>>, closed |-> TRUE]}

\* The index file is replaced from outside while no request is being served.
ReplaceIndex ==
    /\ \A t \in Threads : pc[t] = "idle"
    /\ nops < MaxOps
    /\ nops' = nops + 1
    /\ \E text \in CorruptTexts : base' = Put(base, DOCUMENTS_FILE, text)
    /\ UNCHANGED <<files, backups, dirs, now, lock, saved, lastbytes, locals, overlaps,
                   solo, pre, last, hist>>

\* The index file is removed from outside while no request is being served.
RemoveIndex ==
    /\ \A t \in Threads : pc[t] = "idle"
    /\ DOCUMENTS_FILE \in DOMAIN base
    /\ nops < MaxOps
    /\ nops' = nops + 1
    /\ base' = Remove(base, DOCUMENTS_FILE)
    /\ UNCHANGED <<files, backups, dirs, now, lock, saved, lastbytes, locals, overlaps,
                   solo, pre, last, hist>>

NextEnv == Next \/ ReplaceIndex \/ RemoveIndex

\* The store together with an outside writer of the index file.
SpecEnv == Init /\ [][NextEnv]_vars

\* ------------------------------------------------------------------ claims
\* The records of the persisted index, as a load returns them.
Index == _load_document_metas_sync(base).metas
PreIndex == _load_document_metas_sync(pre.base).metas
Ids(ms) == {ms[i].id : i \in 1..Len(ms)}
LoadPcs == {"load_documents", "get_load", "save_load", "delete_load"}

\* The request that has just completed was op, returned status, and no other
\* request was in flight from its start to its end (pre holds the files at
\* its start).
Alone(op, status) ==
    last.op = op /\ last.status = status /\ last.solo /\ pre.taken

\* C1: in every reachable state the index file is absent (no save has
\* completed yet) or holds the complete JSON text of the record list of the
\* last completed save, and a load of it returns exactly that list; a save in
\* flight never shows in it.
C1_IndexFileComplete ==
    IF saved = <<>>
    THEN DOCUMENTS_FILE \notin DOMAIN base
    ELSE /\ DOCUMENTS_FILE \in DOMAIN base
         /\ ~JSONDecodeError(base[DOCUMENTS_FILE])
         /\ base[DOCUMENTS_FILE] = json_dump(saved[1])
         /\ _load_document_metas_sync(base) = [exc |-> "none", metas |-> saved[1]]

\* C1 witness: a save has written its whole temporary file, which differs from
\* the index file, while another handler is about to load the index.
C1_Witness ==
    \E t \in Threads, u \in Threads :
        /\ pc[t] = "save_metas_replace"
        /\ pc[u] \in LoadPcs
        /\ saved # <<>>
        /\ saved[1] # metas[t]
        /\ base[DOCUMENTS_FILE] # base[mkstemp(t)]

\* No two requests have overlapped so far.
Sequential == overlaps = 0

\* C2 (as claimed), for requests served one after the other: whenever a step
\* overwrites or removes a content file, a backup holding the bytes the file
\* had before that step exists afterwards.
C2_EveryMutationRecoverable ==
    [][(Sequential /\ solo # NoThread) =>
        \A n \in DOMAIN files :
            (n \notin DOMAIN files' \/ files'[n] # files[n])
                => \E b \in DOMAIN backups' : backups'[b] = files[n]]_vars

\* C3: no two records of the persisted index have the same id.
C3_UniqueIds ==
    \A i, j \in 1..Len(Index) : i # j => Index[i].id # Index[j].id

\* C3 witness: a create whose id was already in the index has completed (it
\* replaced that record), and the index holds a record.
C3_Witness ==
    /\ last.op = "create" /\ last.status = "ok" /\ last.updated
    /\ Len(Index) >= 1

\* C4 (as claimed), for requests served one after the other: the id a create
\* returns was held by no record when the create started, the index gained
\* exactly one record, and every earlier record and content file is unchanged.
C4_CreateFreshId ==
    (Sequential /\ Alone("create", "ok")) =>
        /\ last.doc.id \notin Ids(PreIndex)
        /\ Len(Index) = Len(PreIndex) + 1
        /\ \A i \in 1..Len(PreIndex) : i <= Len(Index) /\ Index[i] = PreIndex[i]
        /\ \A n \in DOMAIN pre.files : n \in DOMAIN files /\ files[n] = pre.files[n]

\* C5 (as claimed): after an update of a document of the index that ran
\* alone, there is exactly one new backup file, it holds the bytes the
\* document's content file had before the update, and no earlier backup
\* has changed.
C5_BackupOnOverwrite ==
    Alone("update", "ok") =>
        /\ \A o \in DOMAIN pre.backups : o \in DOMAIN backups /\ backups[o] = pre.backups[o]
        /\ \E b \in DOMAIN backups \ DOMAIN pre.backups :
              /\ DOMAIN backups = DOMAIN pre.backups \cup {b}
              /\ _get_file_path(last.id)[2] \in DOMAIN pre.files
              /\ backups[b] = pre.files[_get_file_path(last.id)[2]]

\* C6 (as claimed), for requests served one after the other: a get right
\* after a create, on the id the create returned, returns that id, the title
\* and the content given to the create, and created_at = updated_at.
C6_RoundTrip ==
    (/\ Sequential
     /\ last.op = "get" /\ last.solo /\ pre.taken
     /\ pre.last.op = "create" /\ pre.last.status = "ok" /\ pre.last.solo
     /\ last.id = pre.last.doc.id)
    => /\ last.status = "ok"
       /\ last.doc.id = pre.last.doc.id
       /\ last.doc.title = pre.last.title[1]
       /\ last.doc.content = pre.last.content[1]
       /\ last.doc.created_at = last.doc.updated_at

\* C7 (as claimed), for requests served one after the other: an update keeps
\* the record's position, the length of the index and created_at; without a
\* title it keeps the title and stores the given content; without content
\* it keeps the bytes of the content file.
C7_PartialUpdate ==
    (Sequential /\ Alone("update", "ok")) =>
        LET i == first_match(PreIndex, last.id)
            name == _get_file_path(last.id)[2]
        IN /\ Len(Index) = Len(PreIndex)
           /\ Index[i].id = last.id
           /\ Index[i].created_at = PreIndex[i].created_at
           /\ last.title = None => Index[i].title = PreIndex[i].title
           /\ last.title # None => Index[i].title = last.title[1]
           /\ last.content # None =>
                  name \in DOMAIN files /\ text_read(files[name]) = last.content[1]
           /\ (last.content = None /\ name \in DOMAIN pre.files) =>
                  name \in DOMAIN files /\ files[name] = pre.files[name]

\* C8 (as claimed): after a delete that ran alone on an id of the index, the
\* id is in the index no more, its content file is gone, a backup holds its
\* final content (the bytes of the content file at the start of the delete,
\* or, had the file gone missing, the bytes last written to it), and the
\* other records, in their order, and the other content files are unchanged.
C8_DeletePostcondition ==
    Alone("delete", "ok") =>
        LET i == first_match(PreIndex, last.id)
            name == PreIndex[i].file_path[2]
        IN /\ first_match(Index, last.id) = 0
           /\ name \notin DOMAIN files
           /\ Index = pop(PreIndex, i)
           /\ \A n \in DOMAIN pre.files \ {name} :
                  n \in DOMAIN files /\ files[n] = pre.files[n]
           /\ \E b \in DOMAIN backups :
                  \/ name \in DOMAIN pre.files /\ backups[b] = pre.files[name]
                  \/ name \notin DOMAIN pre.files /\ name \in DOMAIN lastbytes
                        /\ backups[b] = lastbytes[name]

\* C9: a get, update or delete that answers NotFound has created, changed or
\* removed no file; and one that ran alone on an id no record of the index
\* had answers NotFound and leaves the index file, the content files and the
\* backup files as they were.
C9_AbsentIdNoEffect ==
    /\ last.status = "NotFound" => ~last.dirty
    /\ (/\ last.op \in {"get", "update", "delete"} /\ last.solo /\ pre.taken
        /\ \A i \in 1..Len(PreIndex) : PreIndex[i].id # last.id)
       => /\ last.status = "NotFound"
          /\ base = pre.base /\ files = pre.files /\ backups = pre.backups

\* C9 witness: a delete of an absent id answered NotFound while documents and
\* backups exist.
C9_Witness ==
    /\ last.op = "delete" /\ last.status = "NotFound" /\ last.solo /\ pre.taken
    /\ Len(Index) >= 1 /\ DOMAIN files # {} /\ DOMAIN backups # {}

\* The index file is absent or does not parse as an array of records.
Corrupt(b) ==
    \/ DOCUMENTS_FILE \notin DOMAIN b
    \/ JSONDecodeError(b[DOCUMENTS_FILE])
    \/ b[DOCUMENTS_FILE].kind # "array"
    \/ \E i \in 1..Len(b[DOCUMENTS_FILE].items) : ~valid_meta(b[DOCUMENTS_FILE].items[i])

\* C10 (as claimed): a list that starts on an absent or unparseable index
\* file does not raise and returns the empty sequence.
C10_CorruptIndexListsEmpty ==
    (last.op = "list" /\ last.solo /\ pre.taken /\ Corrupt(pre.base))
        => last.status = "ok" /\ last.n = 0

\* C11 (as claimed): a create returns the id str(n + 1), n being the number
\* of documents it loaded; and as long as no delete has started and no two
\* creates have overlapped, the k-th create to complete returns str(k).
C11_CountBasedIds ==
    (last.op = "create" /\ last.status = "ok") =>
        /\ last.doc.id = str(last.n + 1)
        /\ (~hist.deletes /\ ~hist.overlapped) => last.doc.id = str(hist.creates)

\* A create that has chosen this id is being served.
Creating(id) == \E t \in Threads : req[t].op = "create" /\ doc[t].id = id

\* C12 (as claimed): once delete(id) has returned true, and until a create
\* returns (or is about to return) that id, the index holds no record with
\* the id, the id has no content file, and a get of the id that runs alone
\* answers NotFound.
C12_NoResurrection ==
    /\ \A id \in hist.gone :
           ~Creating(id) =>
               /\ first_match(Index, id) = 0
               /\ ~exists(_get_file_path(id))
    /\ (Alone("get", "ok") \/ Alone("get", "NotFound")) =>
           (last.id \in hist.gone => last.status = "NotFound")

\* C13: every record of the persisted index has created_at <= updated_at.
C13_CreatedBeforeUpdated ==
    \A i \in 1..Len(Index) : Index[i].created_at <= Index[i].updated_at

\* C13 witness: an update that overlapped another request has completed, and
\* its record in the index has created_at < updated_at.
C13_Witness ==
    /\ last.op = "update" /\ last.status = "ok" /\ ~last.solo
    /\ \E i \in 1..Len(Index) :
           Index[i].id = last.id /\ Index[i].created_at < Index[i].updated_at

\* No request is being served.
Quiescent == \A t \in Threads : pc[t] = "idle"

\* Two updates of different ids were served together, with no other request
\* at that time, and have completed: last is the second to save and it had
\* loaded the index for its save before the first (last.prev) saved.
TwoUpdatesRaced ==
    /\ Quiescent /\ pre.n = 2
    /\ last.op = "update" /\ last.status = "ok"
    /\ last.prev # <<>>
    /\ last.prev[1].op = "update" /\ last.prev[1].status = "ok"
    /\ last.prev[1].raced
    /\ last.prev[1].id # last.id

\* C14: when two updates of different ids have raced so, the index has the
\* second saver's new record, while the record of the first saver is the one
\* the index held before either saved (its old title and updated_at, and not
\* the record it returned); both content files hold the content written.
C14_LostUpdate ==
    TwoUpdatesRaced =>
        LET first == last.prev[1]
        IN /\ record_of(Index, last.id) = <<meta_of(last.doc)>>
           /\ record_of(Index, first.id) = first.old
           /\ record_of(Index, first.id) # <<meta_of(first.doc)>>
           /\ Index[first_match(Index, first.id)].updated_at < first.doc.updated_at
           /\ read_bytes(_get_file_path(first.id)) = text_write(first.doc.content)
           /\ read_bytes(_get_file_path(last.id)) = text_write(last.doc.content)

\* C14 witness: such a race has happened, and the first saver had changed
\* the title.
C14_Witness ==
    TwoUpdatesRaced /\ last.prev[1].title # None

\* The handlers between mkstemp and the end of os.replace in
\* _save_document_metas_sync.
InSave == {t \in Threads : pc[t] \in {"save_metas_dump", "save_metas_replace"}}

\* C15: at no time are two handlers between the creation of the temporary
\* file and the end of the swap, and the one that is there owns the lock; no
\* read of the index file happens while a handler is there; and when a save
\* completes the index file holds exactly the records passed to it, so that
\* of two concurrent saves the one that took the lock second decides the file.
C15_SavesTotallyOrdered ==
    [][/\ Cardinality(InSave') <= 1
       /\ \A t \in InSave' : lock' = t
       /\ \A t \in Threads :
              (pc[t] \in LoadPcs /\ pc'[t] # pc[t] /\ DOCUMENTS_FILE \in DOMAIN base)
                  => InSave \subseteq {t}
       /\ \A t \in Threads :
              (pc[t] = "save_metas_replace" /\ pc'[t] = "idle")
                  => /\ base'[DOCUMENTS_FILE] = json_dump(metas[t])
                     /\ _load_document_metas_sync(base').metas = metas[t]]_vars

\* C15 witness: two saves were in progress together and both have completed;
\* the index holds the list of the second.
C15_Witness ==
    /\ Quiescent
    /\ last.status = "ok" /\ last.op \in {"create", "update", "delete"}
    /\ last.prev # <<>>
    /\ last.prev[1].status = "ok" /\ last.prev[1].op \in {"create", "update", "delete"}
    /\ last.prev[1].raced
    /\ saved # <<>> /\ Index = saved[1]

\* C16 (as claimed): when two updates of the same id, one with a title only
\* and one with content only, were served together and both have completed,
\* the content file holds the content supplied and the index record has the
\* title supplied.
C16_OmittedFieldsKept ==
    (/\ Quiescent /\ pre.n = 2
     /\ last.op = "update" /\ last.status = "ok"
     /\ last.prev # <<>>
     /\ last.prev[1].op = "update" /\ last.prev[1].status = "ok"
     /\ last.prev[1].id = last.id
     /\ \/ last.title # None /\ last.content = None
           /\ last.prev[1].title = None /\ last.prev[1].content # None
        \/ last.title = None /\ last.content # None
           /\ last.prev[1].title # None /\ last.prev[1].content = None)
    => LET title == IF last.title # None THEN last.title[1] ELSE last.prev[1].title[1]
           content == IF last.content # None THEN last.content[1]
                      ELSE last.prev[1].content[1]
       IN /\ exists(_get_file_path(last.id))
          /\ read_bytes(_get_file_path(last.id)) = text_write(content)
          /\ record_of(Index, last.id) # <<>>
          /\ record_of(Index, last.id)[1].title = title

\* What get(id) returns in a state with these files: <<>> for NotFound.
GetView(b, fs, id) ==
    LET ms == _load_document_metas_sync(b).metas
        i == first_match(ms, id)
    IN IF i = 0 THEN <<>>
       ELSE <<Document(ms[i], IF ms[i].file_path[2] \in DOMAIN fs
                              THEN text_read(fs[ms[i].file_path[2]]) ELSE <<>>)>>

\* C17 (as claimed): after a create or update that ran alone and was aborted
\* by a failing file-system call in save_document, get(id) returns the
\* document as it was before the request (NotFound if there was none) or
\* as the completed request would have left it, and the id has no content
\* file without a record.
C17_NoPartialState ==
    (/\ last.op \in {"create", "update"} /\ last.status = "failed"
     /\ last.solo /\ pre.taken
     /\ last.doc # NoDoc)
    => /\ \/ GetView(base, files, last.doc.id) = GetView(pre.base, pre.files, last.doc.id)
          \/ GetView(base, files, last.doc.id) =
                 <<[last.doc EXCEPT !.content = text_read(text_write(@))]>>
       /\ exists(_get_file_path(last.doc.id)) => first_match(Index, last.doc.id) # 0

\* The index file of a directory: <<>> or <<its text>>.
IndexFile(b) == IF DOCUMENTS_FILE \in DOMAIN b THEN <<b[DOCUMENTS_FILE]>> ELSE <<>>

C19_IndexContentConsistent ==
    (Quiescent /\ hist.faults = 0) =>
        /\ \A i \in 1..Len(Index) : exists(Index[i].file_path)
        /\ \A n \in DOMAIN files :
               Cardinality({i \in 1..Len(Index) : Index[i].file_path = <<FILES_DIR, n>>}) = 1

\* C20: under fair scheduling every request that has started completes (it
\* returns or fails); the lock is held only by a handler between mkstemp and
\* the end of os.replace, so it is free after every way out of a load or a
\* save, a failing one included, and whenever no request is being served.
C20_TerminatesAndReleases ==
    /\ [](lock # NoThread => lock \in InSave)
    /\ [](Quiescent => lock = NoThread)
    /\ \A t \in Threads : [](pc[t] # "idle" => <>(pc[t] = "idle"))

\* C20 witness: a save has failed between mkstemp and os.replace while
\* another handler waits for the lock to save, and the lock is free.
C20_Witness ==
    /\ last.status = "failed"
    /\ last.at \in {"save_metas_dump", "save_metas_replace"}
    /\ lock = NoThread
    /\ \E u \in Threads : pc[u] = "save_metas"

====
